---- MODULE Spec2Model ----
\* Model of the two scripts of the repository:
\*   server/generate_signature.py  (main(): load key, inspect account,
\*                                  resolve asset, classify, submit one order)
\*   server/test_signing.py        (two probes of sign_l1_action)
EXTENDS Integers, Sequences, FiniteSets, TLC

VARIABLES
    pc,            \* position of main() in generate_signature.py
    env_key,       \* value of os.getenv("PRIVATE_KEY")
    private_key,   \* the local private_key (after prefix removal)
    wallet,        \* Account.from_key(...) result
    sdk,           \* TRUE once Info and Exchange are constructed
    user_state,    \* answer of info.user_state(wallet_address)
    meta,          \* answer of info.meta()
    asset_id,      \* the local asset_id
    order_type,    \* ORDER_CONFIG["order_type"]
    result,        \* answer of exchange.order(...)
    calls,         \* how often each external capability was invoked
    out,           \* the lines printed by main(), as tags
    exit,          \* how the process ended
    error,         \* the error that ended the run, if any
    kpc, k, arg_plain, arg_prefixed, arg_again,   \* prefix round trips of the key
    tpc, sign_ok, hash_hex, tout                  \* test_signing.py

mainVars == <<pc, env_key, private_key, wallet, sdk, user_state, meta, asset_id,
              order_type, result, calls, out, exit, error>>
keyVars  == <<kpc, k, arg_plain, arg_prefixed, arg_again>>
testVars == <<tpc, sign_ok, hash_hex, tout>>
vars     == <<mainVars, keyVars, testVars>>

\* ---------------------------------------------------------------- bounds
MaxKeyLen   == 4    \* longest PRIVATE_KEY text drawn
MaxUniverse == 3    \* longest instrument universe drawn
MaxStatuses == 2    \* longest statuses list of an order response drawn
MaxSample   == 3    \* longest sample key text of the prefix round trip
MaxHashLen  == 22   \* longest hash hex text drawn

\* ------------------------------------------------- Python values (JSON)
\* A value is a record; a dict is a set of <<key, value>> pairs.
NoneVal   == [t |-> "none", s |-> "", n |-> 0, d |-> {}]
Str(a)    == [t |-> "str",  s |-> a,  n |-> 0, d |-> {}]
Num(i)    == [t |-> "num",  s |-> "", n |-> i, d |-> {}]
Dict(p)   == [t |-> "dict", s |-> "", n |-> 0, d |-> p]
Raised    == [t |-> "raised", s |-> "", n |-> 0, d |-> {}]   \* the call raised
Unset     == [t |-> "unset",  s |-> "", n |-> 0, d |-> {}]   \* not assigned yet

HasKey(v, key) == \E p \in v.d : p[1] = key
\* dict.get(key, default)
Get(v, key, default) ==
    IF HasKey(v, key) THEN (CHOOSE p \in v.d : p[1] = key)[2] ELSE default
\* Python truthiness of None, a str, a number or a dict
Truthy(v) ==
    CASE v.t = "none" -> FALSE
      [] v.t = "str"  -> v.s # ""
      [] v.t = "num"  -> v.n # 0
      [] v.t = "dict" -> v.d # {}
      [] OTHER        -> TRUE
\* only a dict has .get
IsDict(v) == v.t = "dict"

\* float(x): the numerals the model draws, anything else raises
NumeralValue == [a \in {"0", "1", "2"} |-> CASE a = "0" -> 0 [] a = "1" -> 1 [] a = "2" -> 2]
FloatOk(v) == v.t = "num" \/ (v.t = "str" /\ v.s \in DOMAIN NumeralValue)
FloatOf(v) == IF v.t = "num" THEN v.n ELSE NumeralValue[v.s]

\* ------------------------------------------------------- configuration
\* ORDER_CONFIG["coin"]
Coin == "HYPE"
Names == {"HYPE", "BTC"}
LimitOrder(tif) == Dict({<<"limit", Dict({<<"tif", Str(tif)>>})>>})
MarketOrder     == Dict({<<"market", Dict({})>>})
\* the four order types the comments of ORDER_CONFIG offer
OrderTypes == {LimitOrder("Ioc"), LimitOrder("Gtc"), LimitOrder("Alo"), MarketOrder}

\* ---------------------------------------------------------- credential
KeyChars == {"0", "x"}
HexChars == {"0", "1", "a", "f"}
Prefix   == <<"0", "x">>
Absent   == <<"<absent>">>             \* os.getenv returned None
RECURSIVE TextsOfLen(_)
TextsOfLen(n) ==
    IF n = 0 THEN {<<>>}
    ELSE {Append(t, c) : t \in TextsOfLen(n - 1), c \in KeyChars}
KeyTexts == UNION {TextsOfLen(n) : n \in 0..MaxKeyLen}
EnvKeys  == {Absent} \cup KeyTexts

\* `not private_key`
KeyMissingEmptyAccepted(e) == e = Absent
KeyMissing(e) == e = Absent \/ e = <<>>

\* private_key.startswith("0x")
StartsWithPrefix(t) == Len(t) >= 2 /\ SubSeq(t, 1, 2) = Prefix
\* if private_key.startswith("0x"): private_key = private_key[2:]
StripPrefixNever(t) == t
StripPrefix(t) == IF StartsWithPrefix(t) THEN SubSeq(t, 3, Len(t)) ELSE t
\* the argument of Account.from_key: "0x" + private_key
FromKeyArg(t) == Prefix \o StripPrefix(t)

\* Account.from_key accepts a prefixed, non-empty run of hex digits
WellFormedHex(t) == Len(t) >= 1 /\ \A i \in 1..Len(t) : t[i] \in HexChars
FromKeyAccepts(a) == StartsWithPrefix(a) /\ WellFormedHex(SubSeq(a, 3, Len(a)))
NoWallet == [key |-> <<>>, address |-> <<>>]
\* wallet.address is a function of the key handed to from_key
Wallet(a) == [key |-> a, address |-> <<"addr">> \o SubSeq(a, 3, Len(a))]

\* ---------------------------------------------------- account inspection
MarginSummaries ==
    { Dict({}),
      Dict({<<"accountValue", Str("2")>>, <<"totalMarginUsed", Str("1")>>}),
      Dict({<<"accountValue", Str("n/a")>>}) }
CrossSummaries ==
    { Dict({}),
      Dict({<<"accountValue", Str("1")>>}),
      Dict({<<"accountValue", Str("n/a")>>}) }
UserStateDicts ==
    { Dict(ms \cup cs) :
        ms \in {{}} \cup {{<<"marginSummary", m>>} : m \in MarginSummaries \cup {NoneVal}},
        cs \in {{}} \cup {{<<"crossMarginSummary", c>>} : c \in CrossSummaries} }
\* what info.user_state can do: raise, answer None, answer a dict
UserStates == {Raised, NoneVal} \cup UserStateDicts

\* lines 99-106: the three amounts are read, converted and printed
AmountsReadable(us) ==
    /\ IsDict(us)
    /\ LET ms == Get(us, "marginSummary", Dict({}))
       IN  /\ IsDict(ms)
           /\ FloatOk(Get(ms, "accountValue", Num(0)))
           /\ FloatOk(Get(ms, "totalMarginUsed", Num(0)))
\* free_collateral = account_value - margin_used
FreeCollateral(us) ==
    LET ms == Get(us, "marginSummary", Dict({}))
    IN  FloatOf(Get(ms, "accountValue", Num(0))) - FloatOf(Get(ms, "totalMarginUsed", Num(0)))
\* lines 109-114: the margin mode line, then the cross margin value
ModeLinesPresence(us) ==
    IF HasKey(us, "crossMarginSummary")
    THEN <<"mode_cross", "cross_value">>
    ELSE <<"mode_isolated">>
ModeLines(us) ==
    LET cross == Get(us, "crossMarginSummary", Dict({}))
    IN  IF Truthy(cross)
        THEN <<"mode_cross">> \o
             (IF IsDict(cross) /\ FloatOk(Get(cross, "accountValue", Num(0)))
              THEN <<"cross_value">> ELSE <<"warning">>)
        ELSE <<"mode_isolated">>
\* lines 97-118: the whole try/except, as the lines it prints
InspectLines(us) ==
    IF us = Raised \/ ~AmountsReadable(us)
    THEN <<"warning">>
    ELSE <<"amounts">> \o ModeLines(us)

\* ------------------------------------------------------ asset resolution
NoAsset == -1                           \* asset_id = None
RECURSIVE TuplesOfLen(_)
TuplesOfLen(n) ==
    IF n = 0 THEN {<<>>}
    ELSE {Append(t, c) : t \in TuplesOfLen(n - 1), c \in Names}
Universes == UNION {TuplesOfLen(n) : n \in 0..MaxUniverse}
MetaKinds == {"raised", "none", "empty_dict", "no_universe"}
\* what info.meta can do: raise, answer None, {}, a dict without "universe",
\* or a dict with a universe (each asset with its name)
Metas == {[kind |-> kd, universe |-> <<>>] : kd \in MetaKinds}
         \cup {[kind |-> "universe", universe |-> u] : u \in Universes}
NoMeta == [kind |-> "unset", universe |-> <<>>]
\* `not meta`
MetaFalsy(m) == m.kind \in {"none", "empty_dict"}

\* lines 126-130: for idx, asset in enumerate(...): first match, then break
RECURSIVE ScanLast(_, _, _)
ScanLast(u, idx, found) ==
    IF idx >= Len(u) THEN found
    ELSE ScanLast(u, idx + 1, IF u[idx + 1] = Coin THEN idx ELSE found)
RECURSIVE Scan(_, _)
Scan(u, idx) ==
    IF idx >= Len(u) THEN NoAsset
    ELSE IF u[idx + 1] = Coin THEN idx ELSE Scan(u, idx + 1)
ResolveLast(u) == ScanLast(u, 0, NoAsset)
Resolve(u) == Scan(u, 0)

\* --------------------------------------------------- order type labels
Tif(ot) == Get(Get(ot, "limit", Dict({})), "tif", NoneVal)
\* lines 155-162: the if/elif chain, as the label lines it prints
Labels(ot) ==
    IF Tif(ot) = Str("Ioc") THEN <<"IOC">>
    ELSE IF Tif(ot) = Str("Gtc") THEN <<"GTC">>
    ELSE IF Tif(ot) = Str("Alo") THEN <<"ALO">>
    ELSE IF Truthy(Get(ot, "market", NoneVal)) THEN <<"Market">>
    ELSE <<>>

\* ------------------------------------------------------------ submission
StatusKinds == {"resting", "filled", "error", "other"}
RECURSIVE StatusLists(_)
StatusLists(n) ==
    IF n = 0 THEN {<<>>}
    ELSE {Append(t, c) : t \in StatusLists(n - 1), c \in StatusKinds}
NoResult == [kind |-> "unset", status |-> "", has_data |-> FALSE, statuses |-> <<>>]
\* what exchange.order can do: raise, or answer a response record
Results ==
    {[kind |-> "raised", status |-> "", has_data |-> FALSE, statuses |-> <<>>],
     [kind |-> "record", status |-> "err", has_data |-> FALSE, statuses |-> <<>>],
     [kind |-> "record", status |-> "ok", has_data |-> FALSE, statuses |-> <<>>]}
    \cup {[kind |-> "record", status |-> "ok", has_data |-> TRUE, statuses |-> l] :
            l \in UNION {StatusLists(n) : n \in 0..MaxStatuses}}
\* lines 191-197: one line per status that is resting, filled or an error
RECURSIVE StatusLines(_)
StatusLines(l) ==
    IF l = <<>> THEN <<>>
    ELSE (IF Head(l) \in {"resting", "filled", "error"} THEN <<Head(l)>> ELSE <<>>)
         \o StatusLines(Tail(l))
\* lines 181-204: the response, then the verdict
ResponseLines(r) ==
    <<"response">> \o
    (IF r.status = "ok"
     THEN <<"placed">> \o (IF r.has_data THEN StatusLines(r.statuses) ELSE <<>>)
     ELSE <<"failed">>)

NoCalls == [from_key |-> 0, clients |-> 0, user_state |-> 0, meta |-> 0, order |-> 0]
Called(what) == [calls EXCEPT ![what] = @ + 1]

\* ------------------------------------------------ generate_signature.py
KeyIdle  == /\ kpc = "idle" /\ k = <<>> /\ arg_plain = <<>>
            /\ arg_prefixed = <<>> /\ arg_again = <<>>
TestIdle == /\ tpc = "idle" /\ sign_ok = <<>> /\ hash_hex = <<>> /\ tout = <<>>

Init ==
    /\ pc = "import"
    /\ env_key \in EnvKeys
    /\ order_type \in OrderTypes
    /\ private_key = <<>>
    /\ wallet = NoWallet
    /\ sdk = FALSE
    /\ user_state = Unset
    /\ meta = NoMeta
    /\ asset_id = NoAsset
    /\ result = NoResult
    /\ calls = NoCalls
    /\ out = <<>>
    /\ exit = "running"
    /\ error = "none"
    /\ KeyIdle
    /\ TestIdle

\* an uncaught exception ends the run
Raise(e) ==
    /\ pc' = "done"
    /\ exit' = "raised"
    /\ error' = e

\* lines 31-41: the SDK import, sys.exit(1) when it is not installed
ImportSDK ==
    /\ pc = "import"
    /\ \E installed \in BOOLEAN :
         IF installed
         THEN /\ pc' = "load_key"
              /\ UNCHANGED <<out, exit, error>>
         ELSE /\ pc' = "done"
              /\ out' = Append(out, "sdk_missing")
              /\ exit' = "sysexit1"
              /\ error' = "ImportError"
    /\ UNCHANGED <<env_key, private_key, wallet, sdk, user_state, meta, asset_id,
                   order_type, result, calls, keyVars, testVars>>

\* lines 72-79: read PRIVATE_KEY, fail when unset, drop the prefix
LoadCredential ==
    /\ pc = "load_key"
    /\ IF KeyMissing(env_key)
       THEN /\ Raise("ValueError_private_key_not_set")
            /\ UNCHANGED private_key
       ELSE /\ private_key' = StripPrefix(env_key)
            /\ pc' = "derive"
            /\ UNCHANGED <<exit, error>>
    /\ UNCHANGED <<env_key, wallet, sdk, user_state, meta, asset_id, order_type,
                   result, calls, out, keyVars, testVars>>

\* lines 81-86: Account.from_key("0x" + private_key), print the address
DeriveWallet ==
    /\ pc = "derive"
    /\ calls' = Called("from_key")
    /\ IF FromKeyAccepts(Prefix \o private_key)
       THEN /\ wallet' = Wallet(Prefix \o private_key)
            /\ out' = Append(out, "wallet_address")
            /\ pc' = "init_sdk"
            /\ UNCHANGED <<exit, error>>
       ELSE /\ Raise("from_key_raised")
            /\ UNCHANGED <<wallet, out>>
    /\ UNCHANGED <<env_key, private_key, sdk, user_state, meta, asset_id,
                   order_type, result, keyVars, testVars>>

\* lines 88-93: Info(...) and Exchange(...); a constructor may raise
InitSDK ==
    /\ pc = "init_sdk"
    /\ calls' = Called("clients")
    /\ \E constructed \in BOOLEAN :
         IF constructed
         THEN /\ sdk' = TRUE
              /\ out' = Append(out, "sdk_initialized")
              /\ pc' = "inspect"
              /\ UNCHANGED <<exit, error>>
         ELSE /\ Raise("client_raised")
              /\ UNCHANGED <<sdk, out>>
    /\ UNCHANGED <<env_key, private_key, wallet, user_state, meta, asset_id,
                   order_type, result, keyVars, testVars>>

\* lines 95-118: the account state, inside try/except Exception
InspectAccountFatal ==
    /\ pc = "inspect"
    /\ calls' = Called("user_state")
    /\ \E us \in UserStates :
         /\ user_state' = us
         /\ IF us = Raised
            THEN /\ Raise("user_state_raised")
                 /\ UNCHANGED out
            ELSE /\ out' = out \o InspectLines(us)
                 /\ pc' = "resolve"
                 /\ UNCHANGED <<exit, error>>
    /\ UNCHANGED <<env_key, private_key, wallet, sdk, meta, asset_id, order_type,
                   result, keyVars, testVars>>
InspectAccount ==
    /\ pc = "inspect"
    /\ calls' = Called("user_state")
    /\ \E us \in UserStates :
         /\ user_state' = us
         /\ out' = out \o InspectLines(us)
    /\ pc' = "resolve"
    /\ UNCHANGED <<env_key, private_key, wallet, sdk, meta, asset_id, order_type,
                   result, exit, error, keyVars, testVars>>

\* the error, if any, that lines 122-133 raise on the answer m of info.meta()
ResolveErrorEmptyIsConfig(m) ==
    CASE m.kind = "raised"       -> "meta_raised"
      [] MetaFalsy(m)            -> "ValueError_failed_to_get_meta"
      [] m.kind = "no_universe"  -> "KeyError_universe"
      [] m.universe = <<>>       -> "ValueError_failed_to_get_meta"
      [] Resolve(m.universe) = NoAsset -> "ValueError_asset_not_found"
      [] OTHER                   -> "none"
ResolveError(m) ==
    CASE m.kind = "raised"       -> "meta_raised"
      [] MetaFalsy(m)            -> "ValueError_failed_to_get_meta"
      [] m.kind = "no_universe"  -> "KeyError_universe"
      [] Resolve(m.universe) = NoAsset -> "ValueError_asset_not_found"
      [] OTHER                   -> "none"

\* lines 120-136: info.meta(), the scan of the universe, the asset line
ResolveAsset ==
    /\ pc = "resolve"
    /\ calls' = Called("meta")
    /\ \E m \in Metas :
         /\ meta' = m
         /\ IF ResolveError(m) = "none"
            THEN /\ asset_id' = Resolve(m.universe)
                 /\ out' = Append(out, "asset")
                 /\ pc' = "show_order"
                 /\ UNCHANGED <<exit, error>>
            ELSE /\ Raise(ResolveError(m))
                 /\ UNCHANGED <<asset_id, out>>
    /\ UNCHANGED <<env_key, private_key, wallet, sdk, user_state, order_type,
                   result, keyVars, testVars>>

\* lines 138-168: the order for display, the order type and its label
ShowOrder ==
    /\ pc = "show_order"
    /\ out' = out \o <<"order_details", "order_type">> \o Labels(order_type)
    /\ pc' = "submit"
    /\ UNCHANGED <<env_key, private_key, wallet, sdk, user_state, meta, asset_id,
                   order_type, result, calls, exit, error, keyVars, testVars>>

\* lines 170-179: the one call of exchange.order
SubmitOrderRetrying ==
    /\ pc = "submit"
    /\ calls' = Called("order")
    /\ \E r \in Results :
         IF r.kind = "raised"
         THEN /\ calls.order < 2
              /\ UNCHANGED <<result, pc, exit, error>>
         ELSE /\ result' = r
              /\ pc' = "interpret"
              /\ UNCHANGED <<exit, error>>
    /\ UNCHANGED <<env_key, private_key, wallet, sdk, user_state, meta, asset_id,
                   order_type, out, keyVars, testVars>>
SubmitOrder ==
    /\ pc = "submit"
    /\ calls' = Called("order")
    /\ \E r \in Results :
         IF r.kind = "raised"
         THEN /\ Raise("order_raised")
              /\ UNCHANGED result
         ELSE /\ result' = r
              /\ pc' = "interpret"
              /\ UNCHANGED <<exit, error>>
    /\ UNCHANGED <<env_key, private_key, wallet, sdk, user_state, meta, asset_id,
                   order_type, out, keyVars, testVars>>

\* lines 181-204: print the response and the verdict, return
InterpretResultRejectionFails ==
    /\ pc = "interpret"
    /\ out' = out \o ResponseLines(result) \o <<"note">>
    /\ pc' = "done"
    /\ exit' = IF result.status = "ok" THEN "zero" ELSE "sysexit1"
    /\ UNCHANGED <<env_key, private_key, wallet, sdk, user_state, meta, asset_id,
                   order_type, result, calls, error, keyVars, testVars>>
InterpretResult ==
    /\ pc = "interpret"
    /\ out' = out \o ResponseLines(result) \o <<"note">>
    /\ pc' = "done"
    /\ exit' = "zero"
    /\ UNCHANGED <<env_key, private_key, wallet, sdk, user_state, meta, asset_id,
                   order_type, result, calls, error, keyVars, testVars>>

Next ==
    \/ ImportSDK
    \/ LoadCredential
    \/ DeriveWallet
    \/ InitSDK
    \/ InspectAccount
    \/ ResolveAsset
    \/ ShowOrder
    \/ SubmitOrder
    \/ InterpretResult

Spec == Init /\ [][Next]_vars

\* ------------------------------------------- the key with and without "0x"
\* Lines 72-82 applied to a sample key text k as it stands, to "0x" + k, and
\* to the text that loading "0x" + k handed to Account.from_key.
MainIdle ==
    /\ pc = "idle" /\ env_key = Absent /\ order_type = MarketOrder
    /\ private_key = <<>> /\ wallet = NoWallet /\ sdk = FALSE
    /\ user_state = Unset /\ meta = NoMeta /\ asset_id = NoAsset
    /\ result = NoResult /\ calls = NoCalls /\ out = <<>>
    /\ exit = "running" /\ error = "none"

SampleChars == HexChars \cup {"x"}
RECURSIVE SamplesOfLen(_)
SamplesOfLen(n) ==
    IF n = 0 THEN {<<>>}
    ELSE {Append(t, c) : t \in SamplesOfLen(n - 1), c \in SampleChars}
SampleKeys == UNION {SamplesOfLen(n) : n \in 1..MaxSample}

InitKey ==
    /\ MainIdle
    /\ TestIdle
    /\ kpc = "plain"
    /\ k \in SampleKeys
    /\ arg_plain = <<>>
    /\ arg_prefixed = <<>>
    /\ arg_again = <<>>

LoadPlain ==
    /\ kpc = "plain"
    /\ arg_plain' = FromKeyArg(k)
    /\ kpc' = "prefixed"
    /\ UNCHANGED <<k, arg_prefixed, arg_again, mainVars, testVars>>

LoadPrefixed ==
    /\ kpc = "prefixed"
    /\ arg_prefixed' = FromKeyArg(Prefix \o k)
    /\ kpc' = "again"
    /\ UNCHANGED <<k, arg_plain, arg_again, mainVars, testVars>>

LoadAgain ==
    /\ kpc = "again"
    /\ arg_again' = FromKeyArg(arg_prefixed)
    /\ kpc' = "done"
    /\ UNCHANGED <<k, arg_plain, arg_prefixed, mainVars, testVars>>

NextKey == LoadPlain \/ LoadPrefixed \/ LoadAgain

SpecKey == InitKey /\ [][NextKey]_vars

\* ------------------------------------------------------ test_signing.py
HashPrefixLen == 20                     \* .hex()[:20]
RECURSIVE Rep(_, _)
Rep(c, n) == IF n = 0 THEN <<>> ELSE Append(Rep(c, n - 1), c)
HashRaised == <<"<raised>">>
HashNotCalled == <<"<not called>">>
\* what action_hash(...).hex() can do: raise, or answer a hex text
HashOutcomes == {HashRaised} \cup {Rep(c, n) : c \in {"a", "b"}, n \in 0..MaxHashLen}
\* text[:20]
Truncate(t) == SubSeq(t, 1, IF Len(t) < HashPrefixLen THEN Len(t) ELSE HashPrefixLen)
Line(tag, text) == [tag |-> tag, text |-> text]

\* one try/except of lines 19-24 and 27-32, as the lines it prints:
\* sign, print the success, hash and print its prefix; on any exception
\* print the failure
ProbeLines(label, signed, h) ==
    IF ~signed THEN <<Line("failed", label)>>
    ELSE <<Line("works", label)>> \o
         (IF h = HashRaised THEN <<Line("failed", label)>>
          ELSE <<Line("hash", Truncate(h))>>)

InitTest ==
    /\ MainIdle
    /\ KeyIdle
    /\ tpc = "probe_none"
    /\ sign_ok = <<>>
    /\ hash_hex = <<>>
    /\ tout = <<>>

\* lines 18-24: vault_address None
ProbeNone ==
    /\ tpc = "probe_none"
    /\ \E signed \in BOOLEAN, h \in HashOutcomes :
         /\ sign_ok' = Append(sign_ok, signed)
         /\ hash_hex' = Append(hash_hex, IF signed THEN h ELSE HashNotCalled)
         /\ tout' = tout \o ProbeLines(<<"None">>, signed, h)
    /\ tpc' = "probe_empty"
    /\ UNCHANGED <<mainVars, keyVars>>

\* lines 26-32: vault_address ''
ProbeEmpty ==
    /\ tpc = "probe_empty"
    /\ \E signed \in BOOLEAN, h \in HashOutcomes :
         /\ sign_ok' = Append(sign_ok, signed)
         /\ hash_hex' = Append(hash_hex, IF signed THEN h ELSE HashNotCalled)
         /\ tout' = tout \o ProbeLines(<<"Empty string">>, signed, h)
    /\ tpc' = "done"
    /\ UNCHANGED <<mainVars, keyVars>>

NextTest == ProbeNone \/ ProbeEmpty

SpecTest == InitTest /\ [][NextTest]_vars

\* ================================================================ claims
Range(q) == {q[i] : i \in 1..Len(q)}
IsLabel(l) == l \in {"IOC", "GTC", "ALO", "Market"}
IsMode(l) == l \in {"mode_cross", "mode_isolated"}
SymbolPresent(u) == \E i \in 1..Len(u) : u[i] = Coin
EnvKeyUnset == env_key = Absent \/ env_key = <<>>
MainStarted == pc \notin {"import", "load_key"} /\ exit # "sysexit1"
Aborted == pc = "done" /\ exit = "raised" /\ calls.order = 0

\* C1: exchange.order is invoked at most once, never retried, and only with a
\* wallet derived and the symbol resolved to an index of the universe; a run
\* with PRIVATE_KEY missing, the universe unavailable or the symbol not in the
\* universe ends with a raised error and never invokes it.
C1_SingleGuardedSubmission ==
    /\ calls.order <= 1
    /\ calls.order = 1 =>
         /\ wallet # NoWallet
         /\ sdk
         /\ meta.kind = "universe"
         /\ asset_id \in 0..(Len(meta.universe) - 1)
         /\ meta.universe[asset_id + 1] = Coin
    /\ (MainStarted /\ EnvKeyUnset) => Aborted
    /\ (meta # NoMeta /\ (meta.kind # "universe" \/ ~SymbolPresent(meta.universe)))
         => Aborted
C1_Witness ==
    pc = "done" /\ calls.order = 1 /\ exit = "raised" /\ error = "order_raised"

\* C2 as stated, its first sentence: a run of main() that reaches the
\* submission step completes normally (exit zero) whatever the submission
\* does, a failure of the submission service included.
C2_AsStated ==
    (pc = "done" /\ calls.order >= 1) => exit = "zero"
\* C2 amended: a run that reaches the submission step exits zero exactly when
\* exchange.order returns a response record, accepted or rejected alike, with
\* the response printed; when the call raises, nothing is caught and the run
\* ends with a raised error. Every non-zero exit has one of nine causes.
C2_ExitZeroIffResponse ==
    /\ (pc = "done" /\ calls.order = 1) =>
         /\ exit = "zero" <=> result.kind = "record"
         /\ result.kind = "record" =>
              /\ "response" \in Range(out)
              /\ error = "none"
              /\ (result.status = "ok" <=> "placed" \in Range(out))
              /\ (result.status # "ok" <=> "failed" \in Range(out))
         /\ result.kind # "record" =>
              /\ exit = "raised" /\ error = "order_raised"
              /\ "response" \notin Range(out)
    /\ (pc = "done" /\ exit # "zero") =>
         error \in {"ValueError_private_key_not_set", "ImportError",
                    "ValueError_asset_not_found", "from_key_raised",
                    "client_raised", "meta_raised",
                    "ValueError_failed_to_get_meta", "KeyError_universe",
                    "order_raised"}
C2_Witness ==
    pc = "done" /\ exit = "zero" /\ result.kind = "record" /\ result.status = "err"

\* C3: with PRIVATE_KEY absent or empty, main() ends with the configuration
\* error and nothing else has happened: no wallet, no client, no query, no
\* submission.
C3_MissingKeyStopsFirst ==
    EnvKeyUnset =>
        /\ wallet = NoWallet
        /\ ~sdk
        /\ calls = NoCalls
        /\ MainStarted =>
             /\ pc = "done" /\ exit = "raised"
             /\ error = "ValueError_private_key_not_set"
C3_Witness ==
    env_key = <<>> /\ pc = "done" /\ error = "ValueError_private_key_not_set"

\* C4: once the universe was scanned, a symbol that occurs in it is resolved
\* to the 0-based position of its first occurrence, and a symbol that occurs
\* nowhere gives no asset id and the asset-not-found error.
C4_FirstMatchIndex ==
    meta.kind = "universe" =>
        LET u == meta.universe
        IN  IF SymbolPresent(u)
            THEN /\ asset_id \in 0..(Len(u) - 1)
                 /\ u[asset_id + 1] = Coin
                 /\ \A j \in 1..asset_id : u[j] # Coin
                 /\ error # "ValueError_asset_not_found"
            ELSE /\ asset_id = NoAsset
                 /\ pc = "done" /\ exit = "raised"
                 /\ error = "ValueError_asset_not_found"
C4_Witness ==
    /\ meta.kind = "universe"
    /\ meta.universe = <<"BTC", "HYPE", "HYPE">>
    /\ asset_id = 1

\* C5 as stated: an empty or unavailable universe (nothing returned, no
\* universe in the record, zero entries) fails with the configuration error,
\* and only a non-empty universe without the symbol with asset-not-found.
UniverseUnavailable ==
    \/ meta.kind \in {"none", "empty_dict", "no_universe"}
    \/ (meta.kind = "universe" /\ meta.universe = <<>>)
C5_AsStated ==
    /\ UniverseUnavailable => error = "ValueError_failed_to_get_meta"
    /\ error = "ValueError_asset_not_found" =>
         /\ meta.kind = "universe" /\ meta.universe # <<>>
         /\ ~SymbolPresent(meta.universe)
\* C5 amended: a metadata answer of None or {} fails with the configuration
\* error "Failed to get meta"; a record without a universe fails with a
\* KeyError; a universe without the symbol, empty or not, fails with the
\* asset-not-found error.
C5_FailureKinds ==
    /\ meta.kind \in {"none", "empty_dict"} =>
         Aborted /\ error = "ValueError_failed_to_get_meta"
    /\ meta.kind = "no_universe" => Aborted /\ error = "KeyError_universe"
    /\ (meta.kind = "universe" /\ ~SymbolPresent(meta.universe)) =>
         Aborted /\ error = "ValueError_asset_not_found"
    /\ error = "ValueError_failed_to_get_meta" => meta.kind \in {"none", "empty_dict"}
    /\ error = "ValueError_asset_not_found" =>
         meta.kind = "universe" /\ ~SymbolPresent(meta.universe)
C5_Witness ==
    /\ meta.kind = "universe" /\ meta.universe = <<>>
    /\ pc = "done" /\ error = "ValueError_asset_not_found"

\* C6: the inspection step never ends the run: whatever info.user_state does,
\* the step prints a warning when the state cannot be read, moves on to asset
\* resolution and leaves everything the later steps use as it was; no run
\* ends because of the inspection.
Unconvertible(v) == ~(v.t = "num" \/ (v.t = "str" /\ v.s \in {"0", "1", "2"}))
InspectionRaises(us) ==
    \/ us.t # "dict"
    \/ \E p \in us.d :
         /\ p[1] = "marginSummary"
         /\ \/ p[2].t # "dict"
            \/ \E q \in p[2].d : /\ q[1] \in {"accountValue", "totalMarginUsed"}
                                 /\ Unconvertible(q[2])
    \/ \E p \in us.d :
         /\ p[1] = "crossMarginSummary"
         /\ \E q \in p[2].d : q[1] = "accountValue" /\ Unconvertible(q[2])
C6_InspectionNonFatal ==
    /\ [][pc = "inspect" =>
            /\ pc' = "resolve"
            /\ exit' = "running" /\ error' = "none"
            /\ Len(out') > Len(out)
            /\ InspectionRaises(user_state') <=> out'[Len(out')] = "warning"
            /\ UNCHANGED <<wallet, sdk, meta, asset_id, order_type, result>>]_vars
    /\ [](calls.user_state = 1 /\ pc = "done" =>
            error \in {"none", "meta_raised", "ValueError_failed_to_get_meta",
                       "KeyError_universe", "ValueError_asset_not_found",
                       "order_raised"})
C6_Witness ==
    /\ user_state = Raised
    /\ "warning" \in Range(out)
    /\ pc = "done" /\ exit = "zero" /\ result.status = "ok"

\* C7: each of the four order types of ORDER_CONFIG makes main() print exactly
\* one label, its own: IOC, GTC, ALO, Market.
ExpectedLabel(ot) ==
    CASE ot = LimitOrder("Ioc") -> "IOC"
      [] ot = LimitOrder("Gtc") -> "GTC"
      [] ot = LimitOrder("Alo") -> "ALO"
      [] ot = MarketOrder       -> "Market"
C7_ExactlyOneLabel ==
    "order_type" \in Range(out) =>
        SelectSeq(out, IsLabel) = <<ExpectedLabel(order_type)>>

\* C8: for a well-formed hex key k, loading k and loading "0x" + k hand the
\* same text, "0x" + k, to Account.from_key and give the same address, and
\* loading the prefixed result again changes nothing.
C8_PrefixInsensitive ==
    (kpc = "done" /\ \A i \in 1..Len(k) : k[i] \in HexChars) =>
        /\ arg_plain = Prefix \o k
        /\ arg_prefixed = arg_plain
        /\ Wallet(arg_prefixed).address = Wallet(arg_plain).address
        /\ arg_again = arg_prefixed
C8_Witness ==
    /\ kpc = "done" /\ k = <<"0", "1", "a">>
    /\ arg_prefixed = <<"0", "x", "0", "1", "a">>
    /\ arg_again = arg_prefixed

\* C9: for an account state that is read successfully, a non-empty
\* crossMarginSummary reports cross margin, an empty or absent one reports
\* isolated margin, and exactly one mode line is printed.
CrossNonEmpty(us) ==
    \E p \in us.d : p[1] = "crossMarginSummary" /\ p[2].d # {}
C9_MarginMode ==
    "amounts" \in Range(out) =>
        SelectSeq(out, IsMode) =
            IF CrossNonEmpty(user_state) THEN <<"mode_cross">> ELSE <<"mode_isolated">>
C9_Witness ==
    /\ "amounts" \in Range(out)
    /\ HasKey(user_state, "crossMarginSummary")
    /\ ~CrossNonEmpty(user_state)
    /\ "mode_isolated" \in Range(out)

\* C10: both variants are probed, None first and the empty string whatever
\* the None probe did, and each variant gets exactly one verdict line, a
\* success or a failure.
Verdicts(label) ==
    {i \in 1..Len(tout) : tout[i].tag \in {"works", "failed"} /\ tout[i].text = label}
C10_OneVerdictEach ==
    /\ tpc = "probe_empty" => Len(sign_ok) = 1
    /\ tpc = "done" =>
         /\ Len(sign_ok) = 2
         /\ Cardinality(Verdicts(<<"None">>)) = 1
         /\ Cardinality(Verdicts(<<"Empty string">>)) = 1

====
